---- MODULE Spec2Model ----
(***************************************************************************)
(* A model of the obsidian-typst plugin (src/main.ts): the plugin's        *)
(* life cycle (onload / onunload), its settings object, the patched        *)
(* MathJax.tex2chtml, the asynchronous Typst task started for every        *)
(* non-LaTeX expression and the DOM node swapping that task performs.      *)
(*                                                                         *)
(* JavaScript is single threaded and runs every callback to completion:    *)
(* one action of the model is one synchronous run of plugin or host code   *)
(* (from a call or the resumption of an await up to the next await).       *)
(***************************************************************************)
EXTENDS Integers, Sequences, FiniteSets, TLC

(***************************************************************************)
(* Bounds of the model.                                                    *)
(***************************************************************************)
\* longest math expression handed to tex2chtml
MaxLen == 2
\* number of tex2chtml calls the host makes in one behaviour
MaxCalls == 2
\* Date.now() returns a value in 0..MaxClock
MaxClock == 1
\* number of copies of placeholders the host puts into the document
MaxClones == 1

(***************************************************************************)
(* Strings are sequences of characters.  One backslash, one whitespace     *)
(* character and one other character are enough to tell the cases of the   *)
(* regular expression and of String.prototype.trim apart.                  *)
(***************************************************************************)
Chars == {"\\", " ", "x"}

IsWhitespace(c) == c = " "

Exprs == UNION {[1..n -> Chars] : n \in 0..MaxLen}

\* the second argument of tex2chtml: absent, or an options object
RVals == {"undefined", "display_true", "display_false"}

\* the text the user types into the 'Custom Preamble' text area
PreambleTexts == {"#let a = 1"}

(***************************************************************************)
(* hasLatexCommand: /\\\S/.test(expr), a scan for the first position at    *)
(* which a backslash is followed by a non-whitespace character.            *)
(***************************************************************************)
RECURSIVE regexTestFrom(_, _)
regexTestFrom(expr, i) ==
    IF i + 1 > Len(expr) THEN FALSE
    ELSE IF expr[i] = "\\" /\ ~IsWhitespace(expr[i + 1]) THEN TRUE
    ELSE regexTestFrom(expr, i + 1)

\* the scan of /\\/ : any backslash
hasLatexCommandAnyBackslash(expr) == \E i \in 1..Len(expr) : expr[i] = "\\"

hasLatexCommand(expr) == regexTestFrom(expr, 1)

(***************************************************************************)
(* String(e).trim(): drops the leading and the trailing whitespace.        *)
(***************************************************************************)
RECURSIVE trimStart(_)
trimStart(s) ==
    IF s # <<>> /\ IsWhitespace(Head(s)) THEN trimStart(Tail(s)) ELSE s

RECURSIVE trimEnd(_)
trimEnd(s) ==
    IF s # <<>> /\ IsWhitespace(s[Len(s)])
    THEN trimEnd(SubSeq(s, 1, Len(s) - 1))
    ELSE s

trim(s) == trimEnd(trimStart(s))

(***************************************************************************)
(* JavaScript objects with the two settings fields: the set of own keys    *)
(* and the values (the value of an absent key is never read).              *)
(***************************************************************************)
Fields == {"fallbackToLatexOnError", "preamble"}

Obj(has, fb, pre) ==
    [has |-> has,
     fallbackToLatexOnError |-> IF "fallbackToLatexOnError" \in has THEN fb ELSE FALSE,
     preamble |-> IF "preamble" \in has THEN pre ELSE ""]

EmptyObj == Obj({}, FALSE, "")

\* const DEFAULT_SETTINGS: Partial<TypstSettings> = { fallbackToLatexOnError: false }
DEFAULT_SETTINGS == Obj({"fallbackToLatexOnError"}, FALSE, "")

\* Object.assign(target, source): the own keys of source overwrite target's
ObjectAssign(target, source) ==
    Obj(target.has \cup source.has,
        IF "fallbackToLatexOnError" \in source.has
        THEN source.fallbackToLatexOnError ELSE target.fallbackToLatexOnError,
        IF "preamble" \in source.has
        THEN source.preamble ELSE target.preamble)

\* what loadData() can return: null (no data.json) reads as no own keys;
\* otherwise what an earlier saveData(this.settings) wrote
StoredData ==
    {Obj(h, fb, pre) : h \in SUBSET Fields, fb \in BOOLEAN, pre \in PreambleTexts}

\* `${x}` of a template literal: an undefined value prints as "undefined"
TemplateText(obj, f) == IF f \in obj.has THEN obj[f] ELSE "undefined"

\* a test that does not look at the flag
TruthyIgnored(obj, f) == TRUE

\* if (x) ... : undefined is falsy
Truthy(obj, f) == f \in obj.has /\ obj[f]

(***************************************************************************)
(* mainContent: the Typst document, as the sequence of the pieces the      *)
(* template literal concatenates.  Every piece names the part of the       *)
(* template it comes from; an empty interpolation contributes nothing.     *)
(***************************************************************************)
Piece(part, text) == IF text = "" THEN <<>> ELSE <<[part |-> part, text |-> text]>>

ExprPieces(mathExpr) ==
    [i \in 1..Len(mathExpr) |-> [part |-> "expr", text |-> mathExpr[i]]]

isDisplayOf(r) == r = "display_true"

mainContent(stg, e, r) ==
    LET mathExpr == trim(e)
        isDisplay == isDisplayOf(r)
        padding == IF isDisplay THEN " " ELSE ""
        margin == IF isDisplay THEN "10pt" ELSE "0pt"
    IN  Piece("set_text", "#set text(size: 18pt, fill: rgb(\"#FFFFFF\"));")
        \o Piece("set_page", "#set page(margin: ")
        \o Piece("set_page", margin)
        \o Piece("set_page", ", height: auto, width: auto);")
        \o Piece("preamble", TemplateText(stg, "preamble"))
        \o Piece("dollar", "$")
        \o Piece("padding", padding)
        \o ExprPieces(mathExpr)
        \o Piece("padding", padding)
        \o Piece("dollar", "$")

(***************************************************************************)
(* The placeholder id `typst-pending-${Date.now()}-${typstPendingId++}`,   *)
(* as the sequence of its characters.                                      *)
(***************************************************************************)
DigitChar(d) == <<"0", "1", "2", "3", "4", "5", "6", "7", "8", "9">>[d + 1]

RECURSIVE Decimal(_)
Decimal(n) ==
    IF n < 10 THEN <<DigitChar(n)>>
    ELSE Decimal(n \div 10) \o <<DigitChar(n % 10)>>

\* the id without the counter
PlaceholderIdNoCounter(now, counter) == <<"typst-pending-">> \o Decimal(now)

PlaceholderId(now, counter) ==
    <<"typst-pending-">> \o Decimal(now) \o <<"-">> \o Decimal(counter)

(***************************************************************************)
(* DOM nodes.  kind is the tag; (kind, owner, k) is the node's identity:   *)
(* owner is the task the node was made for and k numbers the copies the    *)
(* host makes of a placeholder (0 is the placeholder itself).  id is the   *)
(* data-typst-pending attribute, cls the class name, text the text         *)
(* content, r the options the original renderer rendered the node with     *)
(* and content the node's element children.                                *)
(***************************************************************************)
Node(kind, owner, k, id, cls, text, r, content) ==
    [kind |-> kind, owner |-> owner, k |-> k, id |-> id, cls |-> cls,
     text |-> text, r |-> r, content |-> content]

\* document.createElement('span') with the attribute, class and text set
placeholder(owner, id) ==
    Node("span", owner, 0, id, "typst-pending", <<"...Renderizando...">>, "", <<>>)

\* doc.body.firstElementChild of the parsed compiler output
newNodeOf(owner) == Node("svg", owner, 0, <<>>, "", <<>>, "", <<>>)

\* parent.createEl('div', { cls: styleMode }) after container.append(newNode)
containerOf(owner, styleMode) ==
    Node("div", owner, 0, <<>>, styleMode, <<>>, "", <<newNodeOf(owner)>>)

\* the node this._tex2chtml(e, r) returns
latexNodeOf(owner, e, r) == Node("mjx-container", owner, 0, <<>>, "", e, r, <<>>)

\* document.createElement('p') with textContent and className set
errNodeOf(owner, mathExpr) ==
    Node("p", owner, 0, <<>>, "typst-render-error", mathExpr, "", <<>>)

(***************************************************************************)
(* The children of the element the host renders math into, as a sequence.  *)
(***************************************************************************)
IndexOf(seq, n) ==
    IF \E j \in 1..Len(seq) : seq[j] = n
    THEN CHOOSE j \in 1..Len(seq) : seq[j] = n /\ \A l \in 1..(j - 1) : seq[l] # n
    ELSE 0

Contains(seq, n) == IndexOf(seq, n) # 0

\* parent.removeChild(child)
removeChild(seq, n) ==
    LET j == IndexOf(seq, n)
    IN  SubSeq(seq, 1, j - 1) \o SubSeq(seq, j + 1, Len(seq))

\* parent.replaceChild(newChild, oldChild)
replaceChild(seq, new, old) == [seq EXCEPT ![IndexOf(seq, old)] = new]

\* parent.insertBefore / appendChild by the host
insertAt(seq, pos, n) ==
    SubSeq(seq, 1, pos - 1) \o <<n>> \o SubSeq(seq, pos, Len(seq))

\* document.querySelector(`[data-typst-pending="${id}"]`): the first element
\* in document order that carries the attribute value, 0 for null
querySelector(seq, id) ==
    IF \E j \in 1..Len(seq) : seq[j].id = id
    THEN CHOOSE j \in 1..Len(seq) : seq[j].id = id /\ \A l \in 1..(j - 1) : seq[l].id # id
    ELSE 0

VARIABLES
    data,            \* the plugin's stored data (loadData / saveData)
    settings,        \* this.settings
    tabAdded,        \* the setting tab is registered with the host
    pc,              \* where onload stands
    unloaded,        \* onunload has run
    mjLoaded,        \* globalThis.MathJax is defined
    mjTex2chtml,     \* globalThis.MathJax.tex2chtml
    _tex2chtml,      \* this._tex2chtml
    typstReady,      \* this.typstReady is set
    typstPendingId,  \* the counter of placeholder ids
    tasks,           \* the asynchronous Typst tasks, in the order of their start
    dom,             \* the children of the element math is rendered into
    parentCls,       \* the classes toggled on that element
    call,            \* the tex2chtml call on the stack, if any
    pool,            \* the (e, r) arguments the host's notes give rise to
    budget,          \* tex2chtml calls the host still makes
    clones           \* copies of placeholders the host has made

vars == <<data, settings, tabAdded, pc, unloaded, mjLoaded, mjTex2chtml,
          _tex2chtml, typstReady, typstPendingId, tasks, dom, parentCls,
          call, pool, budget, clones>>

lifeVars == <<pc, unloaded, mjLoaded, mjTex2chtml, _tex2chtml, typstReady>>
settingVars == <<data, settings, tabAdded>>
renderVars == <<typstPendingId, tasks, dom, parentCls, call, budget, clones>>

NoCall == [active |-> FALSE, e |-> <<>>, r |-> "undefined", latex |-> FALSE,
           savedCalls |-> 0, created |-> 0, started |-> 0, ret |-> "none", task |-> 0]

AllArgs == Exprs \X RVals

\* a note with a display Typst expression and a LaTeX expression
FewArgs == {<<<<" ", "x">>, "display_true">>, <<<<"\\", "x">>, "undefined">>}

InitPlugin ==
    /\ settings = EmptyObj
    /\ tabAdded = FALSE
    /\ pc = "unstarted"
    /\ unloaded = FALSE
    /\ mjLoaded \in BOOLEAN
    /\ mjTex2chtml = IF mjLoaded THEN "orig" ELSE "undefined"
    /\ _tex2chtml = "undefined"
    /\ typstReady = FALSE
    /\ typstPendingId = 0
    /\ tasks = <<>>
    /\ dom = <<>>
    /\ parentCls = {}
    /\ call = NoCall
    /\ clones = 0

\* a fresh install (no data.json); the host renders several expressions
Init ==
    /\ InitPlugin
    /\ data = EmptyObj
    /\ pool = FewArgs
    /\ budget = MaxCalls

\* any stored data; the host renders one expression, any expression
InitArgs ==
    /\ InitPlugin
    /\ data \in StoredData
    /\ pool = AllArgs
    /\ budget = 1

\* no synchronous plugin code is on the stack: the event loop takes the next job
Idle == ~call.active

(***************************************************************************)
(* onload, from one await to the next.                                     *)
(***************************************************************************)
\* the host enables the plugin: onload runs up to `await this.loadData()`
onloadStart ==
    /\ Idle
    /\ pc = "unstarted"
    /\ pc' = "loadData"
    /\ UNCHANGED <<unloaded, mjLoaded, mjTex2chtml, _tex2chtml, typstReady>>
    /\ UNCHANGED <<settingVars, renderVars, pool>>

\* loadData() resolved: loadSettings assigns this.settings, onload adds the
\* setting tab and runs up to `await loadMathJax()`
loadSettings ==
    /\ Idle
    /\ pc = "loadData"
    /\ settings' = ObjectAssign(ObjectAssign(EmptyObj, DEFAULT_SETTINGS), data)
    /\ tabAdded' = TRUE
    /\ pc' = "loadMathJax"
    /\ UNCHANGED <<data, unloaded, mjLoaded, mjTex2chtml, _tex2chtml, typstReady>>
    /\ UNCHANGED <<renderVars, pool>>

\* loadMathJax() resolved: globalThis.MathJax is defined; initTypstOnce (its
\* first call on this plugin object, typstReady is not set yet) runs up to its
\* first `await $typst.svg({ mainContent: '$x$' })`
loadMathJaxDone ==
    /\ Idle
    /\ pc = "loadMathJax"
    /\ mjLoaded' = TRUE
    /\ mjTex2chtml' = IF mjLoaded THEN mjTex2chtml ELSE "orig"
    /\ typstReady' = TRUE
    /\ pc' = "initDummy"
    /\ UNCHANGED <<unloaded, _tex2chtml>>
    /\ UNCHANGED <<settingVars, renderVars, pool>>

\* lines 28-33, 37, 41, 138: the rest of onload once `await this.initTypstOnce()`
\* resumes; globalThis.MathJax is defined here, so the throw is not taken
patchMathJax ==
    /\ mjLoaded
    /\ _tex2chtml' = mjTex2chtml
    /\ typstPendingId' = 0
    /\ mjTex2chtml' = "patched"
    /\ pc' = "loaded"

\* the dummy compilation settled (a failure is only a warning); initTypstOnce
\* runs up to `await $typst.svg({ mainContent: '#import ...' })`
initDummyDone ==
    /\ Idle
    /\ pc = "initDummy"
    /\ pc' = "initImport"
    /\ UNCHANGED <<unloaded, mjLoaded, mjTex2chtml, _tex2chtml, typstReady>>
    /\ UNCHANGED <<settingVars, renderVars, pool>>

\* the import compilation resolved, or rejected with another message than
\* 'Dummy Registry', or $typst.use threw: initTypstOnce is done, onload resumes
initImportDone ==
    /\ Idle
    /\ pc = "initImport"
    /\ patchMathJax
    /\ UNCHANGED <<unloaded, mjLoaded, typstReady>>
    /\ UNCHANGED <<settingVars, tasks, dom, parentCls, call, budget, clones, pool>>

\* the import compilation rejected with 'Dummy Registry': the registry is
\* registered and initTypstOnce runs up to the retry `await $typst.svg(...)`
initImportRetry ==
    /\ Idle
    /\ pc = "initImport"
    /\ pc' = "initRetry"
    /\ UNCHANGED <<unloaded, mjLoaded, mjTex2chtml, _tex2chtml, typstReady>>
    /\ UNCHANGED <<settingVars, renderVars, pool>>

\* the retry settled: initTypstOnce is done, onload resumes
initRetryDone ==
    /\ Idle
    /\ pc = "initRetry"
    /\ patchMathJax
    /\ UNCHANGED <<unloaded, mjLoaded, typstReady>>
    /\ UNCHANGED <<settingVars, tasks, dom, parentCls, call, budget, clones, pool>>

\* onunload: the host disables the plugin, at any time after it enabled it.
\* Without globalThis.MathJax the assignment throws a TypeError.
onunload ==
    /\ Idle
    /\ pc # "unstarted"
    /\ ~unloaded
    /\ unloaded' = TRUE
    /\ mjTex2chtml' = IF mjLoaded THEN _tex2chtml ELSE mjTex2chtml
    /\ tabAdded' = FALSE
    /\ UNCHANGED <<pc, mjLoaded, _tex2chtml, typstReady, data, settings>>
    /\ UNCHANGED <<renderVars, pool>>

(***************************************************************************)
(* The setting tab: the two onChange handlers.                             *)
(***************************************************************************)
\* toggle.onChange: sets the flag and saves the settings
setFallback(value) ==
    /\ Idle
    /\ tabAdded
    /\ settings' = ObjectAssign(settings, Obj({"fallbackToLatexOnError"}, value, ""))
    /\ data' = settings'
    /\ UNCHANGED <<tabAdded, lifeVars, renderVars, pool>>

\* text.onChange: sets the preamble and saves the settings
setPreamble(value) ==
    /\ Idle
    /\ tabAdded
    /\ settings' = ObjectAssign(settings, Obj({"preamble"}, FALSE, value))
    /\ data' = settings'
    /\ UNCHANGED <<tabAdded, lifeVars, renderVars, pool>>

(***************************************************************************)
(* The patched MathJax.tex2chtml (lines 41-135).                           *)
(***************************************************************************)
NewTask(e, r, id) ==
    [e |-> e, r |-> r, id |-> id,
     doc |-> mainContent(settings, e, r),   \* the document handed to $typst.svg
     pc |-> "awaiting",                     \* awaiting | done
     returned |-> FALSE,                    \* the placeholder was returned to the host
     result |-> "pending",                  \* pending | rendered | fallback | error | lost
     flag |-> "unread",                     \* fallbackToLatexOnError as the catch block read it
     fb |-> "none",                         \* what the fallback call of this._tex2chtml did
     svgIn |-> FALSE,                       \* the SVG was put into the document
     wrapped |-> FALSE,                     \* ... inside the div with the style class
     handler |-> FALSE,                     \* the catch block ran
     logged |-> FALSE,                      \* console.error was called
     removed |-> {}]                        \* the nodes the task removed or replaced

PlaceholderOf(i) == placeholder(i, tasks[i].id)

\* if (hasLatexCommand(e)) return this._tex2chtml(e, r);
tex2chtmlLatex(e, r) ==
    /\ Idle
    /\ mjLoaded /\ mjTex2chtml = "patched"
    /\ budget > 0
    /\ <<e, r>> \in pool
    /\ hasLatexCommand(e)
    /\ call' = [active |-> TRUE, e |-> e, r |-> r, latex |-> TRUE,
                savedCalls |-> 1, created |-> 0, started |-> 0,
                ret |-> "saved", task |-> 0]
    /\ budget' = budget - 1
    /\ UNCHANGED <<typstPendingId, tasks, dom, parentCls, clones>>
    /\ UNCHANGED <<lifeVars, settingVars, pool>>

\* otherwise: the placeholder is created and the async function runs up to
\* `await $typst.svg({ mainContent })`; the call is about to return
tex2chtmlTypst(e, r, now) ==
    /\ Idle
    /\ mjLoaded /\ mjTex2chtml = "patched"
    /\ budget > 0
    /\ <<e, r>> \in pool
    /\ ~hasLatexCommand(e)
    /\ tasks' = Append(tasks, NewTask(e, r, PlaceholderId(now, typstPendingId)))
    /\ typstPendingId' = typstPendingId + 1
    /\ call' = [active |-> TRUE, e |-> e, r |-> r, latex |-> FALSE,
                savedCalls |-> 0, created |-> 1, started |-> 1,
                ret |-> "placeholder", task |-> Len(tasks) + 1]
    /\ budget' = budget - 1
    /\ UNCHANGED <<dom, parentCls, clones>>
    /\ UNCHANGED <<lifeVars, settingVars, pool>>

\* the call returns to the host (or the exception of this._tex2chtml reaches it)
tex2chtmlReturn ==
    /\ call.active
    /\ call' = NoCall
    /\ tasks' = IF call.task = 0 THEN tasks
                ELSE [tasks EXCEPT ![call.task].returned = TRUE]
    /\ UNCHANGED <<typstPendingId, dom, parentCls, budget, clones>>
    /\ UNCHANGED <<lifeVars, settingVars, pool>>

(***************************************************************************)
(* The host's handling of the placeholders it was given.                   *)
(***************************************************************************)
Consumed(n) == \E j \in 1..Len(tasks) : n \in tasks[j].removed

\* the host puts the placeholder into the document
hostInsert(i, pos) ==
    /\ Idle
    /\ tasks[i].returned
    /\ ~Contains(dom, PlaceholderOf(i))
    /\ ~Consumed(PlaceholderOf(i))
    /\ dom' = insertAt(dom, pos, PlaceholderOf(i))
    /\ UNCHANGED <<typstPendingId, tasks, parentCls, call, budget, clones>>
    /\ UNCHANGED <<lifeVars, settingVars, pool>>

\* the host takes the placeholder out of the document (a re-render)
hostDetach(i) ==
    /\ Idle
    /\ Contains(dom, PlaceholderOf(i))
    /\ dom' = removeChild(dom, PlaceholderOf(i))
    /\ UNCHANGED <<typstPendingId, tasks, parentCls, call, budget, clones>>
    /\ UNCHANGED <<lifeVars, settingVars, pool>>

\* the host puts a copy of the placeholder (same attributes) into the document
hostClone(i, pos) ==
    /\ Idle
    /\ tasks[i].returned
    /\ clones < MaxClones
    /\ clones' = clones + 1
    /\ dom' = insertAt(dom, pos, [PlaceholderOf(i) EXCEPT !.k = clones + 1])
    /\ UNCHANGED <<typstPendingId, tasks, parentCls, call, budget>>
    /\ UNCHANGED <<lifeVars, settingVars, pool>>

(***************************************************************************)
(* The asynchronous task, from the resumption of `await $typst.svg` to its *)
(* end (lines 73-131).  outcome is what the compiler produced: "svg" (a    *)
(* string with an element), "empty" (a string without one) or "reject".    *)
(***************************************************************************)
\* a continuation that does not wait for the stack to empty
MayResumeSync == TRUE

\* the continuation of an await is a job of its own: it runs when no call of
\* tex2chtml is on the stack
MayResume == Idle

\* the try block after the await
tryBlock(i, outcome) ==
    LET t == tasks[i]
        ph == PlaceholderOf(i)
        isDisplay == isDisplayOf(t.r)
        styleMode == IF isDisplay THEN "typst-display" ELSE "typst-inline"
        parentMode == IF isDisplay THEN "typst-math-display" ELSE "typst-math-inline"
        q == querySelector(dom, t.id)
        nothing == [dom |-> dom, cls |-> parentCls, removed |-> {},
                    svgIn |-> FALSE, wrapped |-> FALSE, thrown |-> TRUE]
    IN  IF outcome # "svg" THEN nothing
        ELSE IF Contains(dom, ph)
        THEN [dom |-> Append(removeChild(dom, ph), containerOf(i, styleMode)),
              cls |-> parentCls \cup {parentMode}, removed |-> {ph},
              svgIn |-> TRUE, wrapped |-> TRUE, thrown |-> FALSE]
        ELSE IF q # 0
        \* replaceChild(newNode, existing), then parent.removeChild(placeholder)
        \* throws NotFoundError: the placeholder is no child of parent
        THEN [dom |-> replaceChild(dom, newNodeOf(i), dom[q]),
              cls |-> parentCls, removed |-> {dom[q]},
              svgIn |-> TRUE, wrapped |-> FALSE, thrown |-> TRUE]
        ELSE nothing

\* the element the catch block replaces: the placeholder if it has a parent,
\* else the element found by the id, else none (0)
targetOf(seq, i) ==
    IF Contains(seq, PlaceholderOf(i)) THEN IndexOf(seq, PlaceholderOf(i))
    ELSE querySelector(seq, tasks[i].id)

\* the catch block; fbOutcome is what the original renderer does when called
catchBlock(i, s, fbOutcome) ==
    LET t == tasks[i]
        flag == Truthy(settings, "fallbackToLatexOnError")
        fb == IF ~flag THEN "none"
              ELSE IF _tex2chtml = "undefined" THEN "throw"
              ELSE fbOutcome
        q == targetOf(s.dom, i)
        base == [dom |-> s.dom, removed |-> s.removed,
                 flag |-> IF flag THEN "true" ELSE "false", fb |-> fb]
    IN  IF fb = "node" /\ q # 0
        THEN base @@ [dom2 |-> replaceChild(s.dom, latexNodeOf(i, t.e, t.r), s.dom[q]),
                      removed2 |-> s.removed \cup {s.dom[q]},
                      result |-> "fallback", logged |-> FALSE]
        ELSE IF q # 0
        THEN base @@ [dom2 |-> replaceChild(s.dom, errNodeOf(i, trim(t.e)), s.dom[q]),
                      removed2 |-> s.removed \cup {s.dom[q]},
                      result |-> "error", logged |-> TRUE]
        ELSE base @@ [dom2 |-> s.dom, removed2 |-> s.removed,
                      result |-> "lost", logged |-> TRUE]

taskResume(i, outcome, fbOutcome) ==
    /\ MayResume
    /\ tasks[i].pc = "awaiting"
    /\ LET s == tryBlock(i, outcome)
           c == catchBlock(i, s, fbOutcome)
       IN  IF ~s.thrown
           THEN /\ dom' = s.dom
                /\ parentCls' = s.cls
                /\ tasks' = [tasks EXCEPT ![i] =
                       [@ EXCEPT !.pc = "done", !.doc = <<>>, !.result = "rendered",
                                 !.svgIn = TRUE, !.wrapped = TRUE,
                                 !.removed = s.removed]]
           ELSE /\ dom' = c.dom2
                /\ parentCls' = s.cls
                /\ tasks' = [tasks EXCEPT ![i] =
                       [@ EXCEPT !.pc = "done", !.doc = <<>>, !.result = c.result,
                                 !.flag = c.flag, !.fb = c.fb,
                                 !.svgIn = s.svgIn, !.wrapped = s.wrapped,
                                 !.handler = TRUE, !.logged = c.logged,
                                 !.removed = c.removed2]]
    /\ UNCHANGED <<typstPendingId, call, budget, clones>>
    /\ UNCHANGED <<lifeVars, settingVars, pool>>

(***************************************************************************)
(* The specifications.                                                     *)
(***************************************************************************)
Outcomes == {"svg", "empty", "reject"}
FbOutcomes == {"node", "throw"}

Next ==
    \/ onloadStart
    \/ loadSettings
    \/ loadMathJaxDone
    \/ initDummyDone
    \/ initImportDone
    \/ initImportRetry
    \/ initRetryDone
    \/ onunload
    \/ \E value \in BOOLEAN : setFallback(value)
    \/ \E value \in PreambleTexts : setPreamble(value)
    \/ \E a \in pool : tex2chtmlLatex(a[1], a[2])
    \/ \E a \in pool, now \in 0..MaxClock : tex2chtmlTypst(a[1], a[2], now)
    \/ tex2chtmlReturn
    \/ \E i \in 1..Len(tasks), pos \in {1, Len(dom) + 1} : hostInsert(i, pos)
    \/ \E i \in 1..Len(tasks) : hostDetach(i)
    \/ \E i \in 1..Len(tasks), pos \in {1, Len(dom) + 1} : hostClone(i, pos)
    \/ \E i \in 1..Len(tasks), o \in Outcomes, f \in FbOutcomes : taskResume(i, o, f)

\* a fresh install, several expressions
Spec == Init /\ [][Next]_vars

\* any stored data, one expression, any expression
SpecArgs == InitArgs /\ [][Next]_vars

(***************************************************************************)
(* The claims.                                                             *)
(***************************************************************************)
Tasks == 1..Len(tasks)

\* e contains a backslash immediately followed by a non-whitespace character
BackslashNonWs(e) ==
    \E j \in 1..(Len(e) - 1) : e[j] = "\\" /\ e[j + 1] # " "

\* t is e without its leading and trailing whitespace
IsTrimOf(t, e) ==
    /\ t # <<>> => t[1] # " " /\ t[Len(t)] # " "
    /\ \E a \in 0..Len(e) :
          /\ a + Len(t) <= Len(e)
          /\ SubSeq(e, a + 1, a + Len(t)) = t
          /\ \A j \in 1..Len(e) : (j <= a \/ j > a + Len(t)) => e[j] = " "

\* C1: a call of the patched tex2chtml whose e has a backslash followed by a
\* non-whitespace character passes the result of the saved this._tex2chtml(e, r)
\* through (one call of it), creates no placeholder and starts no task; every
\* other call returns a new placeholder, starts exactly one task (awaiting the
\* compiler) and does not call the saved renderer.
C1_PatchedRenderer ==
    [][(~call.active /\ call'.active) =>
         IF BackslashNonWs(call'.e)
         THEN /\ call'.ret = "saved" /\ call'.savedCalls = 1
              /\ call'.created = 0 /\ call'.started = 0
              /\ tasks' = tasks /\ dom' = dom
              /\ typstPendingId' = typstPendingId
         ELSE /\ call'.ret = "placeholder" /\ call'.savedCalls = 0
              /\ call'.created = 1 /\ call'.started = 1
              /\ Len(tasks') = Len(tasks) + 1
              /\ SubSeq(tasks', 1, Len(tasks)) = tasks
              /\ call'.task = Len(tasks')
              /\ tasks'[call'.task].pc = "awaiting"
              /\ tasks'[call'.task].e = call'.e /\ tasks'[call'.task].r = call'.r
              /\ tasks'[call'.task].fb = "none"
              /\ \A n \in 1..Len(dom') : dom'[n].id # tasks'[call'.task].id
                                          \/ dom'[n].owner # call'.task
    ]_vars

\* a call whose backslash is followed by whitespace or ends the string, about
\* to return its placeholder
C1_Witness ==
    /\ call.active
    /\ \E j \in 1..Len(call.e) : call.e[j] = "\\"
    /\ ~BackslashNonWs(call.e)
    /\ call.ret = "placeholder"
    /\ tasks[call.task].pc = "awaiting"

\* C2: once the compile promise of a placeholder has settled and its task has
\* run, the placeholder is not in the document (still pending) any more,
\* whether the host inserted it before or after.
C2_NoPlaceholderLeft ==
    \A i \in Tasks : tasks[i].pc = "done" => ~Contains(dom, PlaceholderOf(i))

\* C3: when the task of an attached placeholder fails, the placeholder is
\* replaced by the node of the saved renderer if the flag is true and that
\* renderer returns a node (no error node, no error log), and by the
\* <p class="typst-render-error"> holding the trimmed expression if the flag is
\* false or the renderer throws; the caller of tex2chtml has its placeholder
\* already and no call is on the stack.
C3_FailureHandling ==
    [][\A i \in Tasks :
         (/\ tasks[i].pc = "awaiting" /\ tasks'[i].pc = "done"
          /\ Contains(dom, PlaceholderOf(i))
          /\ ~tasks'[i].svgIn)
         =>
         LET j == IndexOf(dom, PlaceholderOf(i))
             flag == "fallbackToLatexOnError" \in settings.has
                       /\ settings.fallbackToLatexOnError
             out == dom'[j]
         IN  /\ tasks[i].returned /\ ~call.active /\ ~call'.active
             /\ Len(dom') = Len(dom)
             /\ \A l \in 1..Len(dom) : l # j => dom'[l] = dom[l]
             /\ tasks'[i].handler
             /\ IF flag /\ tasks'[i].fb = "node"
                THEN /\ out.kind = "mjx-container"
                     /\ out.text = tasks[i].e /\ out.r = tasks[i].r
                     /\ ~tasks'[i].logged
                     /\ tasks'[i].result = "fallback"
                ELSE /\ ~flag \/ tasks'[i].fb = "throw"
                     /\ out.kind = "p" /\ out.cls = "typst-render-error"
                     /\ IsTrimOf(out.text, tasks[i].e)
                     /\ tasks'[i].result = "error"
    ]_vars

\* the flag is on, the saved renderer threw, and the error node shows the
\* expression without the whitespace it was given with
C3_Witness ==
    \E i \in Tasks :
        /\ tasks[i].result = "error" /\ tasks[i].flag = "true" /\ tasks[i].fb = "throw"
        /\ ~tasks[i].svgIn
        /\ tasks[i].removed = {PlaceholderOf(i)}
        /\ Contains(dom, errNodeOf(i, <<"x">>))
        /\ tasks[i].e = <<" ", "x">>

\* C4: as long as the call that created a placeholder has not returned it, the
\* task has not resumed: nothing was removed or replaced, the saved renderer
\* was not called as fallback and no node of the task is in the document.
C4_FilledAfterReturn ==
    \A i \in Tasks :
        ~tasks[i].returned =>
            /\ tasks[i].pc = "awaiting" /\ tasks[i].result = "pending"
            /\ ~tasks[i].handler /\ tasks[i].fb = "none" /\ ~tasks[i].logged
            /\ ~tasks[i].svgIn /\ tasks[i].removed = {}
            /\ \A n \in 1..Len(dom) : dom[n].owner # i

\* a non-LaTeX call that has created its placeholder and not returned it yet
C4_Witness ==
    /\ call.active /\ call.task # 0
    /\ ~tasks[call.task].returned
    /\ tasks[call.task].pc = "awaiting"

\* C5: in every document handed to the compiler the text of settings.preamble
\* precedes all other Typst code (the set rules, the expression).
C5_PreambleFirst ==
    \A i \in Tasks :
        \A j, k \in 1..Len(tasks[i].doc) :
            (/\ tasks[i].doc[j].part = "preamble"
             /\ tasks[i].doc[j].text \in PreambleTexts
             /\ tasks[i].doc[k].part # "preamble") => j < k

\* C6: after onunload has run, globalThis.MathJax.tex2chtml is the host's
\* original function.
C6_RestoredAfterUnload ==
    (unloaded /\ mjLoaded) => mjTex2chtml = "orig"

\* C7: a successful render of an attached placeholder puts the output at the
\* placeholder's position and leaves the other children as they are.
C7_InPlace ==
    [][\A i \in Tasks :
         (/\ tasks[i].pc = "awaiting" /\ tasks'[i].pc = "done"
          /\ tasks'[i].result = "rendered"
          /\ Contains(dom, PlaceholderOf(i)))
         =>
         LET j == IndexOf(dom, PlaceholderOf(i))
         IN  /\ Len(dom') = Len(dom)
             /\ dom'[j].owner = i /\ dom'[j].kind = "div"
             /\ \A l \in 1..Len(dom) : l # j => dom'[l] = dom[l]
    ]_vars

\* C8: a task that has put the SVG into the document has not run the error
\* handler (no fallback render, no error log), and the SVG is inside the div
\* with the style class.
C8_OneTerminalTransition ==
    \A i \in Tasks :
        tasks[i].svgIn =>
            /\ ~tasks[i].handler /\ tasks[i].fb = "none" /\ ~tasks[i].logged
            /\ tasks[i].wrapped

\* C9: the placeholder ids of the tasks of one onload are pairwise distinct,
\* and a task removes or replaces only its own placeholder or a copy of it.
C9_NoInterference ==
    /\ \A i, j \in Tasks : i # j => tasks[i].id # tasks[j].id
    /\ \A i \in Tasks : \A n \in tasks[i].removed :
          n.owner = i /\ n.kind = "span" /\ n.id = tasks[i].id

\* two tasks created at the same clock value have both finished; one replaced
\* the copy of its placeholder, the other its placeholder
C9_Witness ==
    \E i, j \in Tasks :
        /\ i # j
        /\ tasks[i].pc = "done" /\ tasks[j].pc = "done"
        /\ SubSeq(tasks[i].id, 1, 2) = SubSeq(tasks[j].id, 1, 2)
        /\ \E n \in tasks[i].removed : n.k > 0
        /\ tasks[j].removed = {PlaceholderOf(j)}

\* C10: after loadSettings both settings fields are defined, and the document
\* of an expression holds nothing but the set rules, the saved preamble and the
\* expression.
C10_SettingsDefined ==
    /\ pc \notin {"unstarted", "loadData"} => Fields \subseteq settings.has
    /\ \A i \in Tasks : \A j \in 1..Len(tasks[i].doc) :
          tasks[i].doc[j].part = "preamble" => tasks[i].doc[j].text \in PreambleTexts

====
